---- MODULE Spec2Model ----
(***************************************************************************)
(* Model of the two mail pipelines of ai-email-assistant:                  *)
(*   draft_replies.py   (reply pipeline:    list unread, draft a reply)    *)
(*   upload_ai_sent.py  (indexing pipeline: list labelled, upload, index)  *)
(*                                                                         *)
(* Text is a sequence of one-character strings.  The data of a message     *)
(* part is the base64url encoding of its bytes, a sequence of sextets      *)
(* 0..63 with 64 standing for the padding character '='.                   *)
(***************************************************************************)
EXTENDS Integers, Sequences, FiniteSets, TLC

\* ------------------------------------------------------------------ bounds
MaxParts == 2       \* parts of a message payload
MaxSegs  == 2       \* segments an HTML text is built from
MaxMsgs  == 2       \* messages that can arrive in the mailbox
MaxClock == 4       \* clock ticks
MaxRuns  == 2       \* sequential runs of a pipeline
TicksPerSec == 1    \* clock ticks per whole second

\* time.sleep(2): seconds between two polls of the run
SleepSecs == 2

\* -------------------------------------------------------------- characters
Chars == {" ", "\n", "a", "-", "<", "b", "r", "/", ">",
          "F", "o", "m", ":", "e", "T", "S", "u", "j", "c", "t", "R"}

\* The byte a character is encoded to (ASCII, one byte in UTF-8).
Ord(c) ==
  CASE c = " "  -> 32
    [] c = "\n" -> 10
    [] c = "a"  -> 97
    [] c = "-"  -> 45
    [] c = "<"  -> 60
    [] c = "b"  -> 98
    [] c = "r"  -> 114
    [] c = "/"  -> 47
    [] c = ">"  -> 62
    [] c = "F"  -> 70
    [] c = "o"  -> 111
    [] c = "m"  -> 109
    [] c = ":"  -> 58
    [] c = "e"  -> 101
    [] c = "T"  -> 84
    [] c = "S"  -> 83
    [] c = "u"  -> 117
    [] c = "j"  -> 106
    [] c = "c"  -> 99
    [] c = "t"  -> 116
    [] c = "R"  -> 82

\* str.encode(): text to bytes.
Utf8Encode(text) == [i \in 1..Len(text) |-> Ord(text[i])]

\* bytes.decode(): bytes to text; a byte that is no character of a valid
\* UTF-8 sequence raises UnicodeDecodeError.
Utf8Decode(bytes) ==
  IF \A i \in 1..Len(bytes) : \E c \in Chars : Ord(c) = bytes[i]
    THEN [raised |-> FALSE,
          text |-> [i \in 1..Len(bytes) |-> CHOOSE c \in Chars : Ord(c) = bytes[i]]]
    ELSE [raised |-> TRUE, text |-> <<>>]

\* base64 encoding of a byte sequence, as the mail service produces the
\* data of a part: three bytes to four sextets, '=' padding (64).
RECURSIVE B64Encode(_)
B64Encode(bytes) ==
  IF Len(bytes) = 0 THEN <<>>
  ELSE IF Len(bytes) = 1 THEN
    LET v == bytes[1] * 65536
    IN  << v \div 262144, (v \div 4096) % 64, 64, 64 >>
  ELSE IF Len(bytes) = 2 THEN
    LET v == bytes[1] * 65536 + bytes[2] * 256
    IN  << v \div 262144, (v \div 4096) % 64, (v \div 64) % 64, 64 >>
  ELSE
    LET v == bytes[1] * 65536 + bytes[2] * 256 + bytes[3]
    IN  << v \div 262144, (v \div 4096) % 64, (v \div 64) % 64, v % 64 >>
        \o B64Encode(SubSeq(bytes, 4, Len(bytes)))

\* base64.urlsafe_b64decode: four sextets to three bytes, fewer for a padded
\* last group; a length that is no multiple of four raises binascii.Error.
RECURSIVE B64Groups(_)
B64Groups(s) ==
  IF Len(s) = 0 THEN <<>>
  ELSE
    LET g1 == s[1]
        g2 == s[2]
        g3 == IF s[3] = 64 THEN 0 ELSE s[3]
        g4 == IF s[4] = 64 THEN 0 ELSE s[4]
        v  == g1 * 262144 + g2 * 4096 + g3 * 64 + g4
        all == << v \div 65536, (v \div 256) % 256, v % 256 >>
        keep == IF s[3] = 64 THEN 1 ELSE IF s[4] = 64 THEN 2 ELSE 3
    IN  SubSeq(all, 1, keep) \o B64Groups(SubSeq(s, 5, Len(s)))

urlsafe_b64decode(s) ==
  IF Len(s) % 4 # 0
    THEN [raised |-> TRUE, bytes |-> <<>>]
    ELSE [raised |-> FALSE, bytes |-> B64Groups(s)]

\* base64.urlsafe_b64decode(data).decode()
DecodeData(data) ==
  LET raw == urlsafe_b64decode(data)
  IN  IF raw.raised THEN [raised |-> TRUE, text |-> <<>>]
      ELSE Utf8Decode(raw.bytes)

\* ------------------------------------------------------------ str methods
IsSpace(c) == c \in {" ", "\n"}

RECURSIVE LStrip(_)
LStrip(t) == IF t # <<>> /\ IsSpace(Head(t)) THEN LStrip(Tail(t)) ELSE t

RECURSIVE RStrip(_)
RStrip(t) ==
  IF t # <<>> /\ IsSpace(t[Len(t)]) THEN RStrip(SubSeq(t, 1, Len(t) - 1)) ELSE t

\* str.strip()
Strip(t) == RStrip(LStrip(t))

StartsWith(t, pat) == Len(t) >= Len(pat) /\ SubSeq(t, 1, Len(pat)) = pat

\* str.replace(pat, rep): every non-overlapping occurrence, left to right.
RECURSIVE Replace(_, _, _)
Replace(t, pat, rep) ==
  IF t = <<>> THEN <<>>
  ELSE IF StartsWith(t, pat)
    THEN rep \o Replace(SubSeq(t, Len(pat) + 1, Len(t)), pat, rep)
    ELSE << Head(t) >> \o Replace(Tail(t), pat, rep)

BrTag      == << "<", "b", "r", ">" >>
BrSlashTag == << "<", "b", "r", "/", ">" >>
Newline    == << "\n" >>

\* Variant: only '<br>' is replaced.
HtmlToBody_BrOnly(html) == Replace(html, BrTag, Newline)

\* html.replace('<br>', '\n').replace('<br/>', '\n')
HtmlToBody(html) == Replace(Replace(html, BrTag, Newline), BrSlashTag, Newline)

\* ------------------------------------------------------- message payloads
\* A payload is [parts, body]: parts is payload.get('parts', []), each part
\* [mimeType, data] with data = part.get('body', {}).get('data'); body is
\* payload.get('body', {}).get('data').  A missing data key is the empty
\* sequence: both are falsy in the tests of the code.
Enc(text) == B64Encode(Utf8Encode(text))

Segs == { BrTag, BrSlashTag, << "a", "<" >> }

RECURSIVE SegTexts(_)
SegTexts(n) ==
  IF n = 0 THEN { <<>> }
  ELSE LET prev == SegTexts(n - 1)
       IN  prev \cup { p \o s : p \in prev, s \in Segs }

HtmlTexts == SegTexts(MaxSegs)

\* data of text/plain parts and of the top-level body: missing, blank,
\* text, and bytes that are not valid UTF-8
PlainDatas == { <<>>, Enc(<< " " >>), Enc(<< "a" >>), B64Encode(<< 255 >>) }

PartChoices ==
  [mimeType : {"text/plain"}, data : PlainDatas]
    \cup [mimeType : {"text/html"}, data : { Enc(h) : h \in HtmlTexts }]
    \cup [mimeType : {"application/pdf"}, data : { Enc(<< "a" >>) }]

RECURSIVE SeqsUpTo(_, _)
SeqsUpTo(S, n) ==
  IF n = 0 THEN { <<>> }
  ELSE LET prev == SeqsUpTo(S, n - 1)
       IN  prev \cup { Append(p, x) : p \in { q \in prev : Len(q) = n - 1 }, x \in S }

Payloads == [parts : SeqsUpTo(PartChoices, MaxParts), body : PlainDatas]

\* ------------------------------------------------------ content extraction
\* Index of the first part of the given MIME type whose data is truthy,
\* 0 when the for loop ends without a break.
FirstPart(parts, mime) ==
  LET hits == { i \in 1..Len(parts) :
                  parts[i].mimeType = mime /\ parts[i].data # <<>> }
  IN  IF hits = {} THEN 0 ELSE CHOOSE i \in hits : \A j \in hits : i <= j

\* Body extraction of get_message_content (reply pipeline).
get_message_content(payload) ==
  LET parts == payload.parts
      p     == FirstPart(parts, "text/plain")
      plain == IF p = 0 THEN [raised |-> FALSE, text |-> <<>>]
               ELSE DecodeData(parts[p].data)
  IN  IF plain.raised THEN [raised |-> TRUE, body |-> <<>>]
      ELSE
        LET body1 == plain.text
            h     == IF body1 = <<>> THEN FirstPart(parts, "text/html") ELSE 0
            html  == IF h = 0 THEN [raised |-> FALSE, text |-> <<>>]
                     ELSE DecodeData(parts[h].data)
        IN  IF html.raised THEN [raised |-> TRUE, body |-> <<>>]
            ELSE
              LET body2 == IF h = 0 THEN body1 ELSE HtmlToBody(html.text)
                  top   == IF body2 = <<>> /\ payload.body # <<>>
                             THEN DecodeData(payload.body)
                             ELSE [raised |-> FALSE, text |-> body2]
              IN  IF top.raised THEN [raised |-> TRUE, body |-> <<>>]
                  ELSE [raised |-> FALSE, body |-> top.text]

\* Variant: the HTML fallback without the tag replacement.
ProcessBody_RawHtml(payload) ==
  LET c == get_message_content(payload)
      p == FirstPart(payload.parts, "text/plain")
      h == FirstPart(payload.parts, "text/html")
  IN  IF p = 0 /\ h # 0 /\ ~c.raised
        THEN [raised |-> FALSE, body |-> DecodeData(payload.parts[h].data).text]
        ELSE c

\* Inline body extraction of process_message (indexing pipeline).
ProcessBody(payload) ==
  LET parts == payload.parts
      p     == FirstPart(parts, "text/plain")
  IN  IF p # 0 /\ DecodeData(parts[p].data).raised
        THEN [raised |-> TRUE, body |-> <<>>]
      ELSE
        LET body1 == IF p = 0 THEN <<>> ELSE DecodeData(parts[p].data).text
            h     == IF body1 = <<>> THEN FirstPart(parts, "text/html") ELSE 0
        IN  IF h # 0 /\ DecodeData(parts[h].data).raised
              THEN [raised |-> TRUE, body |-> <<>>]
            ELSE
              LET body2 == IF h = 0 THEN body1
                           ELSE HtmlToBody(DecodeData(parts[h].data).text)
              IN  IF body2 = <<>> /\ payload.body # <<>>
                    THEN LET d == DecodeData(payload.body)
                         IN  [raised |-> d.raised, body |-> d.text]
                    ELSE [raised |-> FALSE, body |-> body2]

\* Variant: the skip rule without strip().
IsBlank_EmptyOnly(body) == body = <<>>

\* `if not body.strip()`: the skip rule of both pipelines
IsBlank(body) == Strip(body) = <<>>

\* body.split(marker)[0]: the text before the first occurrence of marker
RECURSIVE BeforeMarker(_, _)
BeforeMarker(t, marker) ==
  IF t = <<>> \/ StartsWith(t, marker) THEN <<>>
  ELSE << Head(t) >> \o BeforeMarker(Tail(t), marker)

\* ------------------------------------------------------------------ state
VARIABLES
  prog,         \* which program the behaviour runs: "reply" or "index"
  now,          \* the latest reading of the clock, in ticks
  mail,         \* the mailbox: message id i is mail[i] = [date, payload]
  unread,       \* ids carrying UNREAD (all messages are in the inbox)
  labeled,      \* ids carrying GMAIL_LABEL
  drafts,       \* ids a draft was created for, in creation order
  files,        \* texts uploaded to the AI file store
  lastRunFile,  \* LAST_RUN_FILE: <<>> when missing, else << last_run >>
  pc,           \* position of main()
  runs,         \* runs started so far
  ts,           \* lister: the after: bound of the query, <<>> when none
  listing,      \* lister: what the query matches in the mailbox, in list order
  listFail,     \* lister: the request that raised HttpError, 0 when none did
  carry,        \* lister: ids the previous run counted as skipped, as error
  seen,         \* ids a query of the reply pipeline has matched so far
  messages, idx, total, acted, skipped, errors,    \* locals of main()
  outcomes,     \* per listed message of this run: how it was counted
  log,          \* remote calls and file writes of this run, in order
  inPayload,    \* content extraction on its own: the payload,
  extracted,    \*   whether it has been extracted,
  outBody,      \*   what get_message_content returns for it,
  outIndex,     \*   what process_message extracts from it
  marker,       \* configuration: the value of SIGNATURE_MARKER
  inBody,       \* signature stripping on its own: the body,
  outStrip,     \*   [done, cleaned, buffer]: what strip_signature returns for
                \*   it and what process_message writes to the upload buffer
  signature,    \* configuration: the value of SIGNATURE
  inMsg,        \* draft creation on its own: [subject, sender, threadId] as
                \*   get_message_content returned them,
  inReply,      \*   the reply text the assistant wrote,
  outDraft,     \*   the draft the mail service stored
  gpc,          \* generation on its own: position of generate_reply_from_openai,
  svcStatus,    \*   the status of the run at the AI service,
  runStatus,    \*   run.status, as last returned to the function,
  genResult     \*   the text the function returned

mbox  == << mail, unread, labeled, drafts, files, lastRunFile >>
lister == << ts, listing, listFail, carry >>
run   == << pc, runs, lister, seen, messages, idx, total, acted, skipped, errors,
            outcomes, log >>
evars == << inPayload, extracted, outBody, outIndex >>
svars == << inBody, outStrip >>
dvars == << signature, inMsg, inReply, outDraft >>
gvars == << gpc, svcStatus, runStatus, genResult >>
xvars == << evars, marker, svars, dvars, gvars >>
vars  == << prog, now, mbox, run, xvars >>

NoBody == [raised |-> FALSE, body |-> <<>>]

\* os.getenv('SIGNATURE_MARKER', '--'): the default
DefaultMarker == << "-", "-" >>

SIGNATURE_MARKER == marker

\* Variant: without the strip() of the result.
strip_signature_Untrimmed(body) == BeforeMarker(body, SIGNATURE_MARKER)

strip_signature(body) == Strip(BeforeMarker(body, SIGNATURE_MARKER))

NoStrip == [done |-> FALSE, cleaned |-> <<>>, buffer |-> {}]

NoDraft == [done |-> FALSE, threadId |-> 0, to |-> <<>>, subject |-> <<>>,
            body |-> <<>>]

\* ----------------------------------------------------------- draft creation
SIGNATURE == signature

BlankLine == << "\n", "\n" >>

\* "From: me\nTo: {to_email}\nSubject: Re: {subject}\n\n{full}"
MimeText(to_email, subject, full) ==
  << "F", "r", "o", "m", ":", " ", "m", "e", "\n", "T", "o", ":", " " >>
    \o to_email
    \o << "\n", "S", "u", "b", "j", "e", "c", "t", ":", " ", "R", "e", ":", " " >>
    \o subject \o BlankLine \o full

\* Variant: the reply text is used as it is, without strip().
draft_reply_Unstripped(thread_id, to_email, subject, text) ==
  [threadId |-> thread_id,
   raw |-> B64Encode(Utf8Encode(MimeText(to_email, subject,
                                         text \o BlankLine \o SIGNATURE)))]

\* draft_reply: the message of the body passed to drafts().create
draft_reply(thread_id, to_email, subject, text) ==
  [threadId |-> thread_id,
   raw |-> B64Encode(Utf8Encode(MimeText(to_email, subject,
                                         Strip(text) \o BlankLine \o SIGNATURE)))]

\* The lines of a header block.
RECURSIVE SplitLines(_)
SplitLines(t) ==
  LET line == BeforeMarker(t, Newline)
  IN  IF Len(line) = Len(t) THEN << t >>
      ELSE << line >> \o SplitLines(SubSeq(t, Len(line) + 2, Len(t)))

\* The value of the first header field called name, empty without one.
HeaderValue(lines, name) ==
  LET key  == name \o << ":", " " >>
      hits == { i \in 1..Len(lines) : StartsWith(lines[i], key) }
  IN  IF hits = {} THEN <<>>
      ELSE LET l == lines[CHOOSE i \in hits : \A j \in hits : i <= j]
           IN  SubSeq(l, Len(key) + 1, Len(l))

\* drafts().create at the mail service: raw is decoded and read as a
\* message, the header fields up to the first empty line, the body after it.
DraftsCreate(message) ==
  LET text  == DecodeData(message.raw).text
      head  == BeforeMarker(text, BlankLine)
      lines == SplitLines(head)
  IN  [done |-> TRUE,
       threadId |-> message.threadId,
       to |-> HeaderValue(lines, << "T", "o" >>),
       subject |-> HeaderValue(lines, << "S", "u", "b", "j", "e", "c", "t" >>),
       body |-> SubSeq(text, Len(head) + Len(BlankLine) + 1, Len(text))]

\* ----------------------------------------------------------- the mailbox
TextMail   == [parts |-> << [mimeType |-> "text/plain", data |-> Enc(<< "a" >>)] >>,
               body |-> <<>>]
BlankMail  == [parts |-> << [mimeType |-> "text/html", data |-> Enc(BrTag)] >>,
               body |-> <<>>]
SignedMail == [parts |-> <<>>, body |-> Enc(<< "-", "-", "a" >>)]

\* Only the indexing pipeline strips signatures.
MailPayloads ==
  IF prog = "index" THEN { TextMail, BlankMail, SignedMail }
  ELSE { TextMail, BlankMail }

DateSec(m) == mail[m].date \div TicksPerSec

\* A set of ids as a sequence, newest (highest id) first.
RECURSIVE NewestFirst(_)
NewestFirst(S) ==
  IF S = {} THEN <<>>
  ELSE LET m == CHOOSE x \in S : \A y \in S : y <= x
       IN  << m >> \o NewestFirst(S \ {m})

\* maxResults of messages.list (refs per page)
PageSize == 1

\* The pages the remote list call answers with: at least one response, the
\* last of them without a next-page token.
RECURSIVE Paging(_)
Paging(result) ==
  IF Len(result) <= PageSize THEN << result >>
  ELSE << SubSeq(result, 1, PageSize) >>
         \o Paging(SubSeq(result, PageSize + 1, Len(result)))

\* int(datetime.fromisoformat(last_run).timestamp())
QueryTs(last_run) == << last_run[1] \div TicksPerSec >>

\* Variant: the query without the after: bound.
UnreadQuery_NoAfter(last_run) == { unread }

\* The result sets the query 'in:inbox is:unread [after:ts]' can have.  A
\* message dated in a later second than ts matches, one dated in an earlier
\* second does not.  For one dated within second ts it is up to the mail
\* service: it compares whole seconds strictly (none of them matches), or
\* inclusively (all match), or exact times strictly (those dated after the
\* start of the second match).
UnreadQuery(last_run) ==
  IF last_run = <<>> THEN { unread }
  ELSE LET bound == QueryTs(last_run)[1]
           sure  == { m \in unread : DateSec(m) > bound }
           edge  == { m \in unread : DateSec(m) = bound }
       IN  { sure,
             sure \cup edge,
             sure \cup { m \in edge : mail[m].date > bound * TicksPerSec } }

\* messages.list(labelIds=[GMAIL_LABEL])
LabelQuery == labeled

\* Variant: HttpError discards what has been accumulated.
RECURSIVE ListLoop_Discard(_, _, _, _)
ListLoop_Discard(pages, i, failAt, acc) ==
  IF i > Len(pages) THEN acc
  ELSE IF i = failAt THEN <<>>
  ELSE ListLoop_Discard(pages, i + 1, failAt, acc \o pages[i])

\* The pagination loop of the listers: pages are accumulated until no
\* request is left; HttpError from request number failAt ends the loop
\* with what has been accumulated.
RECURSIVE ListLoop(_, _, _, _)
ListLoop(pages, i, failAt, acc) ==
  IF i > Len(pages) THEN acc
  ELSE IF i = failAt THEN acc
  ELSE ListLoop(pages, i + 1, failAt, acc \o pages[i])

get_unread_messages(pages, failAt) == ListLoop(pages, 1, failAt, <<>>)

get_labeled_messages(pages, failAt) == ListLoop(pages, 1, failAt, <<>>)

\* ------------------------------------------------- per-message processing
\* How generate_reply_from_openai ends: the run completes, the run fails
\* (RuntimeError), an API call raises, or the run stays in a status other
\* than 'completed' and 'failed' and the poll loop never exits.
GenOutcomes == { "completed", "failed", "raised", "stuck" }

\* The statuses that end the poll loop: ('completed','failed')
LoopExit == { "completed", "failed" }

\* Variant: the poll loop does not sleep.
GenTime_NoSleep == 0 * TicksPerSec

\* The least time generate_reply_from_openai takes to see the run completed
\* or failed: runs.create answers with the run queued, so the loop sleeps
\* at least once before a retrieve shows one of the two.
GenTime == SleepSecs * TicksPerSec

\* The time the generation for a message took at least: none when the
\* message was not given to it (calls is empty) or an API call raised.
PollTime(calls, gen) == IF calls # <<>> /\ gen \in LoopExit THEN GenTime ELSE 0

\* Variant: a failed mark-read is counted as an error as well.
DraftOne_CountMarkFailure(gen, draftOk, markOk) ==
  IF gen = "stuck" THEN
    [calls |-> <<>>, drafted |-> 0, skipped |-> 0, errors |-> 0,
     created |-> FALSE, read |-> FALSE, stuck |-> TRUE]
  ELSE IF gen # "completed" THEN
    [calls |-> << << "generate", FALSE >> >>,
     drafted |-> 0, skipped |-> 0, errors |-> 1,
     created |-> FALSE, read |-> FALSE, stuck |-> FALSE]
  ELSE IF ~draftOk THEN
    [calls |-> << << "generate", TRUE >>, << "draft", FALSE >> >>,
     drafted |-> 0, skipped |-> 0, errors |-> 1,
     created |-> FALSE, read |-> FALSE, stuck |-> FALSE]
  ELSE
    [calls |-> << << "generate", TRUE >>, << "draft", TRUE >>, << "modify", markOk >> >>,
     drafted |-> 1, skipped |-> 0, errors |-> IF markOk THEN 0 ELSE 1,
     created |-> TRUE, read |-> markOk, stuck |-> FALSE]

\* Variant: mark-read sits in a finally clause and runs after a failed
\* draft creation too.
DraftOne_MarkAlways(gen, draftOk, markOk) ==
  IF gen = "stuck" THEN
    [calls |-> <<>>, drafted |-> 0, skipped |-> 0, errors |-> 0,
     created |-> FALSE, read |-> FALSE, stuck |-> TRUE]
  ELSE IF gen # "completed" THEN
    [calls |-> << << "generate", FALSE >> >>,
     drafted |-> 0, skipped |-> 0, errors |-> 1,
     created |-> FALSE, read |-> FALSE, stuck |-> FALSE]
  ELSE IF ~draftOk THEN
    [calls |-> << << "generate", TRUE >>, << "draft", FALSE >>, << "modify", markOk >> >>,
     drafted |-> 0, skipped |-> 0, errors |-> 1,
     created |-> FALSE, read |-> markOk, stuck |-> FALSE]
  ELSE
    [calls |-> << << "generate", TRUE >>, << "draft", TRUE >>, << "modify", markOk >> >>,
     drafted |-> 1, skipped |-> 0, errors |-> 0,
     created |-> TRUE, read |-> markOk, stuck |-> FALSE]

\* Variant: a mark-read failure reaches the outer except clause, which
\* takes the message back from drafted.
DraftOne_MarkFailureUndoes(gen, draftOk, markOk) ==
  IF gen = "stuck" THEN
    [calls |-> <<>>, drafted |-> 0, skipped |-> 0, errors |-> 0,
     created |-> FALSE, read |-> FALSE, stuck |-> TRUE]
  ELSE IF gen # "completed" THEN
    [calls |-> << << "generate", FALSE >> >>,
     drafted |-> 0, skipped |-> 0, errors |-> 1,
     created |-> FALSE, read |-> FALSE, stuck |-> FALSE]
  ELSE IF ~draftOk THEN
    [calls |-> << << "generate", TRUE >>, << "draft", FALSE >> >>,
     drafted |-> 0, skipped |-> 0, errors |-> 1,
     created |-> FALSE, read |-> FALSE, stuck |-> FALSE]
  ELSE
    [calls |-> << << "generate", TRUE >>, << "draft", TRUE >>, << "modify", markOk >> >>,
     drafted |-> IF markOk THEN 1 ELSE 0, skipped |-> 0,
     errors |-> IF markOk THEN 0 ELSE 1,
     created |-> TRUE, read |-> markOk, stuck |-> FALSE]

\* Calls are logged as << operation, succeeded >>.
\* The try block of main() in the reply pipeline from the generation on.
\* [calls made, increment of drafted, of skipped, of errors, draft created,
\*  UNREAD removed, stuck in the poll loop]
DraftOne(gen, draftOk, markOk) ==
  IF gen = "stuck" THEN
    [calls |-> <<>>, drafted |-> 0, skipped |-> 0, errors |-> 0,
     created |-> FALSE, read |-> FALSE, stuck |-> TRUE]
  ELSE IF gen # "completed" THEN
    [calls |-> << << "generate", FALSE >> >>,
     drafted |-> 0, skipped |-> 0, errors |-> 1,
     created |-> FALSE, read |-> FALSE, stuck |-> FALSE]
  ELSE IF ~draftOk THEN
    [calls |-> << << "generate", TRUE >>, << "draft", FALSE >> >>,
     drafted |-> 0, skipped |-> 0, errors |-> 1,
     created |-> FALSE, read |-> FALSE, stuck |-> FALSE]
  ELSE
    [calls |-> << << "generate", TRUE >>, << "draft", TRUE >>, << "modify", markOk >> >>,
     drafted |-> 1, skipped |-> 0, errors |-> 0,
     created |-> TRUE, read |-> markOk, stuck |-> FALSE]

\* The try block of main() after get_message_content ended with c: the
\* except clause, the skip rule, or the reply.
ReplyAction(c, gen, draftOk, markOk) ==
  IF c.raised THEN
    [calls |-> <<>>, drafted |-> 0, skipped |-> 0, errors |-> 1,
     created |-> FALSE, read |-> FALSE, stuck |-> FALSE]
  ELSE IF IsBlank(c.body) THEN
    [calls |-> <<>>, drafted |-> 0, skipped |-> 1, errors |-> 0,
     created |-> FALSE, read |-> FALSE, stuck |-> FALSE]
  ELSE DraftOne(gen, draftOk, markOk)

\* The body of the for loop of main() in the reply pipeline.
ReplyOne(payload, getOk, gen, draftOk, markOk) ==
  ReplyAction(IF getOk THEN get_message_content(payload)
              ELSE [raised |-> TRUE, body |-> <<>>],
              gen, draftOk, markOk)

\* process_message of the indexing pipeline, from the skip rule to the
\* return of the try block, for the body b extracted from the message.
\* [returned value, calls made, texts uploaded]
ProcessAction(b, uploadOk, attachOk) ==
  IF b.raised THEN [result |-> -1, calls |-> <<>>, uploaded |-> {}]
  ELSE IF IsBlank(b.body)
    THEN [result |-> 0, calls |-> <<>>, uploaded |-> {}]
  ELSE IF ~uploadOk
    THEN [result |-> -1, calls |-> << << "upload", FALSE >> >>, uploaded |-> {}]
  ELSE IF ~attachOk
    THEN [result |-> -1, calls |-> << << "upload", TRUE >>, << "attach", FALSE >> >>,
          uploaded |-> { strip_signature(b.body) }]
  ELSE [result |-> 1, calls |-> << << "upload", TRUE >>, << "attach", TRUE >> >>,
        uploaded |-> { strip_signature(b.body) }]

\* The try block of process_message: the fetch, then the rest.
ProcessTry(payload, getOk, uploadOk, attachOk) ==
  IF ~getOk THEN [result |-> -1, calls |-> <<>>, uploaded |-> {}]
  ELSE ProcessAction(ProcessBody(payload), uploadOk, attachOk)

\* Variant: the label is removed on the success and skip paths only.
ProcessFinally_KeepOnError(t, removeOk) ==
  [result |-> t.result, calls |-> Append(t.calls, << "modify", removeOk >>),
   uploaded |-> t.uploaded, unlabel |-> removeOk /\ t.result # -1]

\* Variant: a failed label removal turns the returned value into -1.
ProcessFinally_FailOnRemove(t, removeOk) ==
  [result |-> IF removeOk THEN t.result ELSE -1,
   calls |-> Append(t.calls, << "modify", removeOk >>),
   uploaded |-> t.uploaded, unlabel |-> removeOk]

\* The finally block of process_message: the label removal, after the try
\* block ended with t.  [returned value, calls made, texts uploaded,
\* label removed]
ProcessFinally(t, removeOk) ==
  [result |-> t.result, calls |-> Append(t.calls, << "modify", removeOk >>),
   uploaded |-> t.uploaded, unlabel |-> removeOk]

process_message(payload, getOk, uploadOk, attachOk, removeOk) ==
  ProcessFinally(ProcessTry(payload, getOk, uploadOk, attachOk), removeOk)

\* The log entries << operation, message, succeeded >> of the calls made
\* for message m: the fetch first.
Calls(getOk, calls, m) ==
  << << "get", m, getOk >> >> \o [i \in 1..Len(calls) |-> << calls[i][1], m, calls[i][2] >>]

\* ids the run that just ended counted as o
Counted(o) == { messages[i] : i \in { j \in 1..Len(outcomes) : outcomes[j] = o } }

Leftover == [skipped |-> Counted("skipped"), error |-> Counted("error")]

NoCarry == [skipped |-> {}, error |-> {}]

\* ------------------------------------------------------------------- Init
InitMain ==
  /\ prog \in { "reply", "index" }
  /\ now = 0
  /\ mail = <<>>
  /\ unread = {}
  /\ labeled = {}
  /\ drafts = <<>>
  /\ files = {}
  /\ lastRunFile = <<>>
  /\ pc = "idle"
  /\ runs = 0
  /\ ts = <<>>
  /\ listing = <<>>
  /\ listFail = 0
  /\ carry = NoCarry
  /\ seen = {}
  /\ messages = <<>>
  /\ idx = 1
  /\ total = 0
  /\ acted = 0
  /\ skipped = 0
  /\ errors = 0
  /\ outcomes = <<>>
  /\ log = <<>>

\* Nothing is under test on its own.
IdleExtract ==
  /\ inPayload = [parts |-> <<>>, body |-> <<>>]
  /\ extracted = FALSE
  /\ outBody = NoBody
  /\ outIndex = NoBody

IdleStrip ==
  /\ inBody = <<>>
  /\ outStrip = NoStrip

IdleDraft ==
  /\ signature = <<>>
  /\ inMsg = [subject |-> <<>>, sender |-> <<>>, threadId |-> 0]
  /\ inReply = <<>>
  /\ outDraft = NoDraft

IdlePoll ==
  /\ gpc = "idle"
  /\ svcStatus = "none"
  /\ runStatus = "none"
  /\ genResult = <<>>

Init ==
  /\ InitMain
  /\ marker = DefaultMarker
  /\ IdleExtract
  /\ IdleStrip
  /\ IdleDraft
  /\ IdlePoll

\* ------------------------------------------------------------ environment
\* The clock readings that can follow the last one.  Only the reply
\* pipeline reads the clock.
Later == IF prog = "reply" THEN now..MaxClock ELSE { now }

\* A message that matches the pipeline's filter arrives and is dated.
Arrive ==
  /\ Len(mail) < MaxMsgs
  /\ \E t \in Later, p \in MailPayloads :
       /\ now' = t
       /\ mail' = Append(mail, [date |-> t, payload |-> p])
  /\ unread'  = IF prog = "reply" THEN unread \cup { Len(mail) + 1 } ELSE unread
  /\ labeled' = IF prog = "index" THEN labeled \cup { Len(mail) + 1 } ELSE labeled
  /\ UNCHANGED << prog, drafts, files, lastRunFile, run, xvars >>

\* update_last_run_time()
update_last_run_time ==
  /\ \E t \in Later :
       /\ now' = t
       /\ lastRunFile' = << t >>
  /\ log' = Append(log, << "write", 0, TRUE >>)

\* Variant: an error ends the loop.
NextMessage_StopOnError ==
  /\ idx' = idx + 1
  /\ pc' = IF idx + 1 > Len(messages) \/ errors' > errors THEN "finish" ELSE "fetch"

\* The end of the for loop body: the next message, or the end of the loop.
NextMessage ==
  /\ idx' = idx + 1
  /\ pc' = IF idx + 1 > Len(messages) THEN "finish" ELSE "fetch"

\* A new call of main(): nothing is left of the previous one.
NewFrame ==
  /\ idx' = 1
  /\ total' = 0
  /\ acted' = 0
  /\ skipped' = 0
  /\ errors' = 0
  /\ outcomes' = <<>>
  /\ log' = <<>>

\* The lister has returned: its locals are gone, main() sets its counters.
Counters ==
  /\ total' = Len(messages)
  /\ acted' = 0
  /\ skipped' = 0
  /\ errors' = 0
  /\ idx' = 1
  /\ ts' = <<>>
  /\ listing' = <<>>
  /\ listFail' = 0
  /\ carry' = NoCarry

\* --------------------------------------------------------- reply pipeline
\* main(): get_last_run_time and get_unread_messages.
StartReply ==
  /\ prog = "reply"
  /\ pc \in { "idle", "done" }
  /\ runs < MaxRuns
  /\ \E matched \in UnreadQuery(lastRunFile) :
       \E failAt \in 0..Len(Paging(NewestFirst(matched))) :
             /\ listing' = NewestFirst(matched)
             /\ listFail' = failAt
             /\ seen' = seen \cup matched
             /\ messages' = get_unread_messages(Paging(NewestFirst(matched)), failAt)
  /\ ts' = IF lastRunFile = <<>> THEN <<>> ELSE QueryTs(lastRunFile)
  /\ pc' = "listed"
  /\ runs' = runs + 1
  /\ carry' = Leftover
  /\ NewFrame
  /\ UNCHANGED << prog, now, mbox, xvars >>

\* main(): total and the counters, then the test `if not messages`.
ReplyCount ==
  /\ prog = "reply"
  /\ pc = "listed"
  /\ Counters
  /\ pc' = IF messages = <<>> THEN "empty" ELSE "fetch"
  /\ UNCHANGED << prog, now, mbox, runs, seen, messages, outcomes, log, xvars >>

\* Variant: the return on an empty listing without update_last_run_time.
ReplyNoMessages_NoWrite ==
  /\ prog = "reply"
  /\ pc = "empty"
  /\ pc' = "done"
  /\ UNCHANGED << prog, now, mbox, runs, lister, seen, messages, idx, total, acted,
                  skipped, errors, outcomes, log, xvars >>

\* main(): no message listed: update_last_run_time and return.
ReplyNoMessages ==
  /\ prog = "reply"
  /\ pc = "empty"
  /\ update_last_run_time
  /\ pc' = "done"
  /\ UNCHANGED << prog, mail, unread, labeled, drafts, files, runs, lister,
                  seen, messages, idx, total, acted, skipped, errors, outcomes, xvars >>

\* main(): the body of the for loop for messages[idx].
ReplyProcess ==
  /\ prog = "reply"
  /\ pc = "fetch"
  /\ \E getOk \in BOOLEAN, gen \in GenOutcomes, draftOk \in BOOLEAN,
        markOk \in BOOLEAN :
       \E r \in { ReplyOne(mail[messages[idx]].payload, getOk, gen, draftOk, markOk) } :
         LET m == messages[idx]
         IN
           /\ now + PollTime(r.calls, gen) <= MaxClock
           /\ now' = now + PollTime(r.calls, gen)
           /\ log' = log \o Calls(getOk, r.calls, m)
           /\ drafts' = IF r.created THEN Append(drafts, m) ELSE drafts
           /\ unread' = IF r.read THEN unread \ { m } ELSE unread
           /\ acted' = acted + r.drafted
           /\ skipped' = skipped + r.skipped
           /\ errors' = errors + r.errors
           /\ IF r.stuck THEN
                /\ pc' = "poll"
                /\ UNCHANGED << idx, outcomes >>
              ELSE
                /\ outcomes' = Append(outcomes,
                                      IF r.errors = 1 THEN "error"
                                      ELSE IF r.skipped = 1 THEN "skipped"
                                      ELSE "drafted")
                /\ NextMessage
  /\ UNCHANGED << prog, mail, labeled, files, lastRunFile, runs, lister,
                  seen, messages, total, xvars >>

\* main(): after the loop, update_last_run_time and the summary.
ReplyFinish ==
  /\ prog = "reply"
  /\ pc = "finish"
  /\ update_last_run_time
  /\ pc' = "done"
  /\ UNCHANGED << prog, mail, unread, labeled, drafts, files, runs, lister,
                  seen, messages, idx, total, acted, skipped, errors, outcomes, xvars >>

\* ------------------------------------------------------ indexing pipeline
\* main(): get_labeled_messages.
StartIndex ==
  /\ prog = "index"
  /\ pc \in { "idle", "done" }
  /\ runs < MaxRuns
  /\ \E failAt \in 0..Len(Paging(NewestFirst(LabelQuery))) :
           /\ listing' = NewestFirst(LabelQuery)
           /\ listFail' = failAt
           /\ messages' = get_labeled_messages(Paging(NewestFirst(LabelQuery)), failAt)
  /\ ts' = <<>>
  /\ UNCHANGED seen
  /\ pc' = "listed"
  /\ runs' = runs + 1
  /\ carry' = Leftover
  /\ NewFrame
  /\ UNCHANGED << prog, now, mbox, xvars >>

\* main(): total and the counters, then the return on total == 0.
IndexCount ==
  /\ prog = "index"
  /\ pc = "listed"
  /\ Counters
  /\ pc' = IF Len(messages) = 0 THEN "done" ELSE "fetch"
  /\ UNCHANGED << prog, now, mbox, runs, seen, messages, outcomes, log, xvars >>

\* main(): process_message(messages[idx]) and the counter it selects.
IndexProcess ==
  /\ prog = "index"
  /\ pc = "fetch"
  /\ \E getOk \in BOOLEAN, uploadOk \in BOOLEAN, attachOk \in BOOLEAN,
        removeOk \in BOOLEAN :
       \E r \in { process_message(mail[messages[idx]].payload,
                                   getOk, uploadOk, attachOk, removeOk) } :
         LET m == messages[idx]
         IN
           /\ log' = log \o Calls(getOk, r.calls, m)
           /\ files' = files \cup r.uploaded
           /\ labeled' = IF r.unlabel THEN labeled \ { m } ELSE labeled
           /\ acted' = IF r.result = 1 THEN acted + 1 ELSE acted
           /\ skipped' = IF r.result = 0 THEN skipped + 1 ELSE skipped
           /\ errors' = IF r.result \notin { 0, 1 } THEN errors + 1 ELSE errors
           /\ outcomes' = Append(outcomes,
                                 IF r.result = 1 THEN "processed"
                                 ELSE IF r.result = 0 THEN "skipped" ELSE "error")
  /\ NextMessage
  /\ UNCHANGED << prog, now, mail, unread, drafts, lastRunFile, runs, lister,
                  seen, messages, total, xvars >>

\* main(): the summary after the loop.
IndexFinish ==
  /\ prog = "index"
  /\ pc = "finish"
  /\ pc' = "done"
  /\ UNCHANGED << prog, now, mbox, runs, lister, seen, messages, idx, total, acted,
                  skipped, errors, outcomes, log, xvars >>

Next ==
  \/ Arrive
  \/ StartReply
  \/ ReplyCount
  \/ ReplyNoMessages
  \/ ReplyProcess
  \/ ReplyFinish
  \/ StartIndex
  \/ IndexCount
  \/ IndexProcess
  \/ IndexFinish

Spec == Init /\ [][Next]_vars

\* ------------------------------------------- content extraction on its own
InitExtract ==
  /\ InitMain
  /\ prog = "reply"
  /\ marker = DefaultMarker
  /\ inPayload \in Payloads
  /\ extracted = FALSE
  /\ outBody = NoBody
  /\ outIndex = NoBody
  /\ IdleStrip
  /\ IdleDraft
  /\ IdlePoll

\* Both copies of the fallback chain applied to the payload.
Extract ==
  /\ ~extracted
  /\ extracted' = TRUE
  /\ outBody' = get_message_content(inPayload)
  /\ outIndex' = ProcessBody(inPayload)
  /\ UNCHANGED << prog, now, mbox, run, inPayload, marker, svars, dvars, gvars >>

SpecExtract == InitExtract /\ [][Extract]_vars

\* ----------------------------------------- signature stripping on its own
MaxBody == 4        \* characters of a body

RECURSIVE TextsUpTo(_, _)
TextsUpTo(S, n) ==
  IF n = 0 THEN { <<>> }
  ELSE LET prev == TextsUpTo(S, n - 1)
       IN  prev \cup { Append(t, c) : t \in { u \in prev : Len(u) = n - 1 }, c \in S }

Bodies == TextsUpTo({ " ", "a", "-" }, MaxBody)

\* Values of SIGNATURE_MARKER: one character, the default, one ending in
\* whitespace.
Markers == { << "-" >>, DefaultMarker, << "-", " " >> }

InitStrip ==
  /\ InitMain
  /\ prog = "index"
  /\ marker \in Markers
  /\ inBody \in Bodies
  /\ outStrip = NoStrip
  /\ IdleExtract
  /\ IdleDraft
  /\ IdlePoll

\* strip_signature(body), and process_message from the skip rule on for this
\* body with every call succeeding: what it writes and uploads.
StripSignature ==
  /\ ~outStrip.done
  /\ outStrip' = [done |-> TRUE,
                  cleaned |-> strip_signature(inBody),
                  buffer |-> ProcessAction([raised |-> FALSE, body |-> inBody],
                                           TRUE, TRUE).uploaded]
  /\ UNCHANGED << prog, now, mbox, run, evars, marker, inBody, dvars, gvars >>

SpecStrip == InitStrip /\ [][StripSignature]_vars

\* ----------------------------------------------- draft creation on its own
MaxReply == 2       \* characters of a reply text

Replies == TextsUpTo({ " ", "\n", "a" }, MaxReply)

\* Values of SIGNATURE: empty, one word, two lines after the '-- ' marker.
Signatures == { <<>>, << "a" >>, << "-", "-", " ", "\n", "a" >> }

\* Header values are single lines.
Senders == { << "a" >>, << "b", " ", "<", "a", ">" >> }

Subjects == { <<>>, << "a" >>, << "R", "e", ":", " ", "a" >> }

InitDraft ==
  /\ InitMain
  /\ prog = "reply"
  /\ marker = DefaultMarker
  /\ signature \in Signatures
  /\ inMsg \in [subject : Subjects, sender : Senders, threadId : 1..2]
  /\ inReply \in Replies
  /\ outDraft = NoDraft
  /\ IdleExtract
  /\ IdleStrip
  /\ IdlePoll

\* main(): draft_reply(service, thread_id, sender, subj, reply) with what
\* get_message_content and generate_reply_from_openai returned.
CreateDraft ==
  /\ ~outDraft.done
  /\ outDraft' = DraftsCreate(draft_reply(inMsg.threadId, inMsg.sender,
                                           inMsg.subject, inReply))
  /\ UNCHANGED << prog, now, mbox, run, evars, marker, svars, signature, inMsg,
                  inReply, gvars >>

SpecDraft == InitDraft /\ [][CreateDraft]_vars

\* --------------------------------------------------- generation on its own
\* The statuses of a run at the AI service.
Statuses == { "queued", "in_progress", "requires_action", "cancelling",
              "cancelled", "failed", "completed", "incomplete", "expired" }

\* The statuses after which the service makes no further transition.
TerminalStatuses == { "cancelled", "failed", "completed", "incomplete", "expired" }

\* The statuses the service can move a run to from status st.
Transitions(st) ==
  CASE st = "queued" -> { "in_progress", "cancelling", "expired" }
    [] st = "in_progress" -> { "completed", "failed", "incomplete",
                               "requires_action", "cancelling", "expired" }
    [] st = "requires_action" -> { "in_progress", "cancelling", "expired" }
    [] st = "cancelling" -> { "cancelled" }
    [] OTHER -> {}

InitPoll ==
  /\ InitMain
  /\ prog = "reply"
  /\ marker = DefaultMarker
  /\ signature = <<>>
  /\ inMsg = [subject |-> <<>>, sender |-> <<>>, threadId |-> 0]
  /\ inReply \in Replies
  /\ outDraft = NoDraft
  /\ IdleExtract
  /\ IdleStrip
  /\ IdlePoll

\* threads.create, messages.create and runs.create: one of them raises, or
\* the run exists and is returned in its first status, queued.
GenCreate ==
  /\ gpc = "idle"
  /\ \/ /\ gpc' = "raised"
        /\ UNCHANGED << svcStatus, runStatus >>
     \/ /\ svcStatus' = "queued"
        /\ runStatus' = "queued"
        /\ gpc' = "test"
  /\ UNCHANGED << prog, now, mbox, run, evars, marker, svars, dvars, genResult >>

\* while run.status not in ('completed','failed')
GenTest ==
  /\ gpc = "test"
  /\ gpc' = IF runStatus \notin LoopExit THEN "sleep" ELSE "exit"
  /\ UNCHANGED << prog, now, mbox, run, evars, marker, svars, dvars, svcStatus,
                  runStatus, genResult >>

\* time.sleep(2)
GenSleep ==
  /\ gpc = "sleep"
  /\ gpc' = "retrieve"
  /\ UNCHANGED << prog, now, mbox, run, evars, marker, svars, dvars, svcStatus,
                  runStatus, genResult >>

\* run = runs.retrieve(...): the status at the service, or the call raises
GenRetrieve ==
  /\ gpc = "retrieve"
  /\ \/ /\ gpc' = "raised"
        /\ UNCHANGED runStatus
     \/ /\ runStatus' = svcStatus
        /\ gpc' = "test"
  /\ UNCHANGED << prog, now, mbox, run, evars, marker, svars, dvars, svcStatus,
                  genResult >>

\* After the loop: RuntimeError unless completed, else the text of the
\* first message of the thread (messages.list can raise).
GenExit ==
  /\ gpc = "exit"
  /\ IF runStatus # "completed"
       THEN gpc' = "raised" /\ UNCHANGED genResult
       ELSE \/ gpc' = "raised" /\ UNCHANGED genResult
            \/ gpc' = "returned" /\ genResult' = inReply
  /\ UNCHANGED << prog, now, mbox, run, evars, marker, svars, dvars, svcStatus,
                  runStatus >>

\* The AI service moves the run on.
Advance ==
  /\ svcStatus \in Statuses
  /\ \E st \in Transitions(svcStatus) : svcStatus' = st
  /\ UNCHANGED << prog, now, mbox, run, evars, marker, svars, dvars, gpc,
                  runStatus, genResult >>

\* The steps of generate_reply_from_openai.
Generate == GenCreate \/ GenTest \/ GenSleep \/ GenRetrieve \/ GenExit

NextPoll ==
  \/ GenCreate
  \/ GenTest
  \/ GenSleep
  \/ GenRetrieve
  \/ GenExit
  \/ Advance

\* The function keeps running: a call or a sleep that can return does.
SpecPoll == InitPoll /\ [][NextPoll]_vars /\ WF_vars(Generate)

\* ------------------------------------------------------------ properties
Range(f) == { f[i] : i \in DOMAIN f }

\* main() is past the counters of the current run
Counting == pc \in { "fetch", "poll", "finish", "done" }

\* main() is past the loop of the current run
LoopEnded == pc \in { "finish", "done" }

\* number of outcomes o among the messages finalized in this run
NumOutcome(o) == Cardinality({ i \in 1..Len(outcomes) : outcomes[i] = o })

\* number of calls of op for message m in this run
OpCount(m, op) == Cardinality({ i \in 1..Len(log) : log[i][1] = op /\ log[i][2] = m })

\* C1: in both pipelines total is the number of listed messages, every
\* finalized message has incremented exactly one of acted, skipped and
\* errors, and once the loop has ended total = acted + skipped + errors.
C1_CountersAddUp ==
  Counting =>
    /\ total = Len(messages)
    /\ acted = NumOutcome("drafted") + NumOutcome("processed")
    /\ skipped = NumOutcome("skipped")
    /\ errors = NumOutcome("error")
    /\ acted + skipped + errors = Len(outcomes)
    /\ (LoopEnded => total = acted + skipped + errors)

C1_Witness ==
  /\ prog = "reply"
  /\ pc = "done"
  /\ total = 2
  /\ acted = 1
  /\ << "modify", messages[1], FALSE >> \in Range(log)
  /\ errors = 1

\* ids the previous run counted as skipped or as error
Carried == carry.skipped \cup carry.error

\* C2 as stated: in the indexing pipeline a message counted as error keeps
\* its label after the run and is listed again by the next run.
C2_ErroredKeepsLabel ==
  prog = "index" =>
    /\ LoopEnded =>
         \A i \in 1..Len(outcomes) :
           outcomes[i] = "error" => messages[i] \in labeled
    /\ pc = "listed" => carry.error \subseteq Range(listing)

\* C2 amended: in the indexing pipeline a message counted as error keeps
\* its label after the run exactly when its label removal raised; when the
\* removal succeeded the label is gone and the next run does not list it.
C2_ErroredKeepsLabelIffRemovalRaised ==
  prog = "index" =>
    /\ Counting =>
         \A i \in 1..Len(outcomes) :
           outcomes[i] = "error" =>
             (messages[i] \in labeled
                <=> << "modify", messages[i], FALSE >> \in Range(log))
    /\ pc = "listed" =>
         \A m \in carry.error : m \in Range(listing) <=> m \in labeled

C2_Witness ==
  /\ prog = "index"
  /\ pc = "listed"
  /\ \E m \in carry.error : m \notin labeled /\ m \notin Range(listing)

\* C3 as stated: in the reply pipeline a message the previous run counted
\* as skipped or as error, and that is still unread, is returned by the
\* query of the next run (read in the claim's favour: under some treatment
\* of the boundary second by the mail service).
C3_LeftoverListedAgain ==
  (prog = "reply" /\ pc = "listed") =>
    \A m \in Carried \cap unread :
      \E matched \in UnreadQuery(lastRunFile) : m \in matched

\* C3 amended: in the reply pipeline a message the previous run counted as
\* skipped or as error is dated no later than the second of the last_run
\* that run wrote, which is the after: bound of the next run; the next
\* run's query leaves it out when it is dated in an earlier second, still
\* unread as it is, and can return it only when it is dated within that
\* very second.
C3_LeftoverListedOnlyWithinSecond ==
  (prog = "reply" /\ pc = "listed") =>
    \A m \in Carried \cap unread :
      /\ ts # <<>>
      /\ ts[1] = lastRunFile[1] \div TicksPerSec
      /\ DateSec(m) <= ts[1]
      /\ DateSec(m) < ts[1] => m \notin Range(listing)
      /\ m \in Range(listing) => DateSec(m) = ts[1]

C3_Witness ==
  /\ prog = "reply"
  /\ pc = "listed"
  /\ \E m \in Carried \cap unread : DateSec(m) < ts[1] /\ m \notin Range(listing)

\* C4: in the reply pipeline no mark-read call is made for a message
\* counted as skipped or as error, and such a message stays unread; a
\* message gets at most one mark-read call, and only after its draft was
\* created.
C4_MarkReadOnlyAfterDraft ==
  (prog = "reply" /\ Counting) =>
    \A i \in 1..Len(outcomes) :
      /\ outcomes[i] \in { "skipped", "error" } =>
           OpCount(messages[i], "modify") = 0 /\ messages[i] \in unread
      /\ OpCount(messages[i], "modify") <= 1
      /\ OpCount(messages[i], "modify") = 1 =>
           /\ outcomes[i] = "drafted"
           /\ << "draft", messages[i], TRUE >> \in Range(log)

C4_Witness ==
  /\ prog = "reply"
  /\ pc = "done"
  /\ \E i \in 1..Len(outcomes) :
       /\ outcomes[i] = "error"
       /\ << "draft", messages[i], FALSE >> \in Range(log)
       /\ messages[i] \in unread
  /\ \E i \in 1..Len(outcomes) : outcomes[i] = "skipped" /\ messages[i] \in unread

\* How the calls of the try block of process_message for m ended: the
\* outcome the main body alone determines.
MainBodyOutcome(m) ==
  IF << "get", m, FALSE >> \in Range(log) THEN "error"
  ELSE IF OpCount(m, "upload") = 0 THEN
    IF IsBlank(ProcessBody(mail[m].payload).body) THEN "skipped" ELSE "error"
  ELSE IF << "upload", m, TRUE >> \in Range(log) /\ << "attach", m, TRUE >> \in Range(log)
    THEN "processed"
  ELSE "error"

\* C5: in the indexing pipeline every message passed to process_message
\* gets exactly one label removal call, made after every other call for
\* it, and is counted as the main body alone determines, whether the
\* removal succeeded or raised.
C5_LabelRemovalAlways ==
  (prog = "index" /\ Counting) =>
    \A i \in 1..Len(outcomes) :
      /\ OpCount(messages[i], "modify") = 1
      /\ \A j \in 1..Len(log), k \in 1..Len(log) :
           (log[j][2] = messages[i] /\ log[k][2] = messages[i]
              /\ log[j][1] = "modify") => k <= j
      /\ outcomes[i] = MainBodyOutcome(messages[i])

C5_Witness ==
  /\ prog = "index"
  /\ pc = "done"
  /\ \E i \in 1..Len(outcomes) :
       /\ outcomes[i] = "processed"
       /\ << "modify", messages[i], FALSE >> \in Range(log)
  /\ \E i \in 1..Len(outcomes) :
       /\ outcomes[i] = "error"
       /\ << "modify", messages[i], TRUE >> \in Range(log)

\* writes of LAST_RUN_FILE in this run
Writes == Cardinality({ i \in 1..Len(log) : log[i][1] = "write" })

\* C6: a run of the reply pipeline writes last_run exactly once, as its
\* last step after every listed message has been finalized; before the end
\* of the run it has not been written.  This holds for a run that listed
\* no message and for every mix of outcomes.
C6_LastRunWrittenOnce ==
  prog = "reply" =>
    /\ pc \in { "listed", "empty", "fetch", "poll", "finish" } => Writes = 0
    /\ pc = "done" =>
         /\ Writes = 1
         /\ log[Len(log)][1] = "write"
         /\ Len(outcomes) = Len(messages)
         /\ lastRunFile # <<>>

C6_Witness ==
  /\ prog = "reply"
  /\ pc = "done"
  /\ runs = 2
  /\ total = 0
  /\ Writes = 1

\* Every character of the text is whitespace (the empty text included).
AllSpace(text) == \A k \in 1..Len(text) : text[k] \in { " ", "\n" }

\* The body the pipeline extracts from message m.
ExtractedBody(m) ==
  IF prog = "reply" THEN get_message_content(mail[m].payload)
  ELSE ProcessBody(mail[m].payload)

\* C7: in both pipelines a message that was fetched and whose extracted
\* body is empty or all whitespace is counted as skipped, and no
\* generation, draft creation, upload or attach call is made for it.
C7_BlankIsSkipped ==
  Counting =>
    \A i \in 1..Len(outcomes) :
      ( /\ << "get", messages[i], TRUE >> \in Range(log)
        /\ ~ExtractedBody(messages[i]).raised
        /\ AllSpace(ExtractedBody(messages[i]).body) ) =>
          /\ outcomes[i] = "skipped"
          /\ \A op \in { "generate", "draft", "upload", "attach" } :
               OpCount(messages[i], op) = 0

C7_Witness ==
  /\ prog = "index"
  /\ pc = "done"
  /\ \E i \in 1..Len(outcomes) :
       /\ outcomes[i] = "skipped"
       /\ ExtractedBody(messages[i]).body = << "\n" >>

Min(a, b) == IF a <= b THEN a ELSE b

\* C9: when list request number k+1 raises HttpError, the lister returns
\* the references of the first k pages in page order, and all of them
\* when no request raises; the run goes on with what was returned.
C9_PartialListing ==
  /\ pc = "listed" =>
       /\ listFail = 0 => messages = listing
       /\ listFail > 0 =>
            messages = SubSeq(listing, 1, Min((listFail - 1) * PageSize, Len(listing)))
  /\ Counting => total = Len(messages)
  /\ LoopEnded => Len(outcomes) = Len(messages)

C9_Witness ==
  /\ pc = "listed"
  /\ listFail = 2
  /\ Len(listing) = 2
  /\ Len(messages) = 1

\* The texts a part's data can encode.
KnownTexts == HtmlTexts \cup { << " " >>, << "a" >> }

Decodable(data) == \E t \in KnownTexts : Enc(t) = data

TextOf(data) == CHOOSE t \in KnownTexts : Enc(t) = data

\* Every '<br>' and '<br/>' replaced by a newline, in one pass.
RECURSIVE BrToNewline(_)
BrToNewline(t) ==
  IF t = <<>> THEN <<>>
  ELSE IF StartsWith(t, BrSlashTag)
    THEN Newline \o BrToNewline(SubSeq(t, Len(BrSlashTag) + 1, Len(t)))
  ELSE IF StartsWith(t, BrTag)
    THEN Newline \o BrToNewline(SubSeq(t, Len(BrTag) + 1, Len(t)))
  ELSE << Head(t) >> \o BrToNewline(Tail(t))

PartsWithData(payload, mime) ==
  { i \in 1..Len(payload.parts) :
      payload.parts[i].mimeType = mime /\ payload.parts[i].data # <<>> }

Lowest(S) == CHOOSE i \in S : \A j \in S : i <= j

\* The source the extraction order selects: [kind, data]
SelectedSource(payload) ==
  IF PartsWithData(payload, "text/plain") # {}
    THEN [kind |-> "plain",
          data |-> payload.parts[Lowest(PartsWithData(payload, "text/plain"))].data]
  ELSE IF PartsWithData(payload, "text/html") # {}
    THEN [kind |-> "html",
          data |-> payload.parts[Lowest(PartsWithData(payload, "text/html"))].data]
  ELSE IF payload.body # <<>> THEN [kind |-> "body", data |-> payload.body]
  ELSE [kind |-> "none", data |-> <<>>]

\* What the selected source src yields.
SelectedBody(src) ==
  IF src.kind = "none" THEN [raised |-> FALSE, body |-> <<>>]
  ELSE IF ~Decodable(src.data) THEN [raised |-> TRUE, body |-> <<>>]
  ELSE IF src.kind = "html"
    THEN [raised |-> FALSE, body |-> BrToNewline(TextOf(src.data))]
  ELSE [raised |-> FALSE, body |-> TextOf(src.data)]

\* C10: get_message_content returns the text of the first text/plain part
\* with data; else the text of the first text/html part with data, every
\* '<br>' and '<br/>' replaced by a newline; else the text of the
\* top-level body data; else the empty string.  It raises only when the
\* data of the source so selected cannot be decoded.
C10_ExtractionOrder ==
  extracted => outBody = SelectedBody(SelectedSource(inPayload))

C10_Witness ==
  /\ extracted
  /\ ~outBody.raised
  /\ SelectedSource(inPayload).kind = "html"
  /\ inPayload.body # <<>>
  /\ Len(inPayload.parts) = 2
  /\ inPayload.parts[1].mimeType = "text/plain"
  /\ TextOf(SelectedSource(inPayload).data) = BrTag \o BrSlashTag
  /\ outBody.body = << "\n", "\n" >>

\* C13: in the reply pipeline a message whose draft was created and whose
\* mark-read call raised is counted as drafted and not as error, drafted and
\* errors count exactly the messages so classified, and the loop goes on
\* with the next message.
C13_MarkReadFailureNonFatal ==
  (prog = "reply" /\ Counting) =>
    /\ \A i \in 1..Len(outcomes) :
         << "modify", messages[i], FALSE >> \in Range(log) =>
           /\ outcomes[i] = "drafted"
           /\ << "draft", messages[i], TRUE >> \in Range(log)
    /\ acted = NumOutcome("drafted")
    /\ errors = NumOutcome("error")
    /\ pc = "fetch" => idx = Len(outcomes) + 1
    /\ LoopEnded => Len(outcomes) = total

C13_Witness ==
  /\ prog = "reply"
  /\ pc = "done"
  /\ total = 2
  /\ outcomes = << "drafted", "drafted" >>
  /\ << "modify", messages[1], FALSE >> \in Range(log)
  /\ << "modify", messages[2], TRUE >> \in Range(log)
  /\ errors = 0
  /\ acted = 2

\* C18: the two copies of the fallback chain give the same result for every
\* payload: both raise or both return the same body, and the skip rule
\* decides the same for both.
C18_SameExtraction ==
  extracted =>
    /\ outIndex = outBody
    /\ IsBlank(outIndex.body) <=> IsBlank(outBody.body)

C18_Witness ==
  /\ extracted
  /\ ~outIndex.raised
  /\ FirstPart(inPayload.parts, "text/plain") = 0
  /\ FirstPart(inPayload.parts, "text/html") = 2
  /\ inPayload.body # <<>>
  /\ outIndex.body = << "\n", "a", "<" >>
  /\ outBody.body = << "\n", "a", "<" >>

Cleaned(m) == strip_signature(ProcessBody(mail[m].payload).body)

\* C17: in the indexing pipeline no empty text reaches the upload: a message
\* the upload is called for, and so every message counted as processed, has
\* a non-empty text after signature stripping, and no stored file is empty.
C17_UploadNeverEmpty ==
  prog = "index" =>
    /\ <<>> \notin files
    /\ Counting =>
         \A i \in 1..Len(outcomes) :
           (OpCount(messages[i], "upload") > 0 \/ outcomes[i] = "processed") =>
             Cleaned(messages[i]) # <<>>

\* C15: in the reply pipeline, whenever the next run can start, every unread
\* message no query has matched yet is matched by that run's query, under
\* any treatment of the boundary second that lets it match: a message that
\* arrived during the previous run is not shut out by the last_run that run
\* wrote at its end.
C15_NoMessageMissed ==
  (prog = "reply" /\ pc \in { "idle", "done" }) =>
    \A m \in unread \ seen :
      \E matched \in UnreadQuery(lastRunFile) : m \in matched

\* First position of marker mk in text t, 0 when it does not occur.
FirstOcc(t, mk) ==
  LET at == { i \in 1..(Len(t) - Len(mk) + 1) : SubSeq(t, i, i + Len(mk) - 1) = mk }
  IN  IF at = {} THEN 0 ELSE CHOOSE i \in at : \A j \in at : i <= j

\* The part of t before the first occurrence of mk, all of t without one.
PartBefore(t, mk) ==
  IF FirstOcc(t, mk) = 0 THEN t ELSE SubSeq(t, 1, FirstOcc(t, mk) - 1)

\* t from its first to its last character that is not whitespace.
Trimmed(t) ==
  LET ink == { i \in 1..Len(t) : t[i] \notin { " ", "\n" } }
  IN  IF ink = {} THEN <<>>
      ELSE SubSeq(t, CHOOSE i \in ink : \A j \in ink : i <= j,
                     CHOOSE i \in ink : \A j \in ink : j <= i)

\* C14: for every body and every non-empty marker strip_signature returns
\* the part of the body before the first occurrence of the marker, trimmed
\* of leading and trailing whitespace (the whole trimmed body without an
\* occurrence), and process_message writes exactly that text to the upload
\* buffer of a message it does not skip.
C14_StripSignature ==
  outStrip.done =>
    /\ outStrip.cleaned = Trimmed(PartBefore(inBody, marker))
    /\ outStrip.buffer =
         IF IsBlank(inBody) THEN {} ELSE { Trimmed(PartBefore(inBody, marker)) }

C14_Witness ==
  /\ outStrip.done
  /\ marker = << "-", " " >>
  /\ inBody = << "a", " ", "-", " " >>
  /\ outStrip.cleaned = << "a" >>
  /\ outStrip.buffer = { << "a" >> }

\* C11: the stored draft's body is the reply text trimmed of leading and
\* trailing whitespace, two newlines, and the signature; it is addressed to
\* the sender of the message, its subject is 'Re: ' and the message's
\* subject, and it carries the message's thread id.
C11_DraftContent ==
  outDraft.done =>
    /\ outDraft.body = Trimmed(inReply) \o << "\n", "\n" >> \o signature
    /\ outDraft.to = inMsg.sender
    /\ outDraft.subject = << "R", "e", ":", " " >> \o inMsg.subject
    /\ outDraft.threadId = inMsg.threadId

C11_Witness ==
  /\ outDraft.done
  /\ inReply = << "\n", "a" >>
  /\ signature = << "-", "-", " ", "\n", "a" >>
  /\ inMsg.subject = << "R", "e", ":", " ", "a" >>
  /\ inMsg.threadId = 2
  /\ outDraft.body = << "a", "\n", "\n", "-", "-", " ", "\n", "a" >>
  /\ outDraft.subject = << "R", "e", ":", " ", "R", "e", ":", " ", "a" >>

\* generate_reply_from_openai has ended: it returned the text or raised
GenEnded == gpc \in { "returned", "raised" }

\* C12: once the run is in a terminal status generate_reply_from_openai
\* ends: the poll loop exits, and the function raises or returns the text.
C12_TerminalEndsPolling == (svcStatus \in TerminalStatuses) ~> GenEnded

====
